---- MODULE Spec2Model ----
(***************************************************************************)
(* A model of src/src/index.js: the incremental translation-merge tool.    *)
(*                                                                         *)
(* A target file is modelled by the tree it holds: what JSON.parse or      *)
(* require reads from it (lines 219-220) and what saveTranslations hands   *)
(* to the serialiser (lines 109-119).  The text written is not modelled.   *)
(*                                                                         *)
(* JavaScript values are records [t, s, k]: t is the run-time type, s the  *)
(* text of a string or number, k the ordered entries of an object or an    *)
(* array.  An entry is [n, val]: the property name (empty for an array     *)
(* element) and the value.  Objects keep their keys in insertion order.    *)
(*                                                                         *)
(* Spec is the run with its calls, retries and reports; SpecDiff and       *)
(* SpecApi are findMissingKeys and apiSingleCall alone, on any arguments;  *)
(* SpecHeap is the run with its trees as shared objects in memory.         *)
(***************************************************************************)
EXTENDS Integers, Sequences, FiniteSets, TLC

VARIABLES
    languageSource,         \* the source tree (line 149)
    files,                  \* the target file of each locale: a tree, or NoFile
    currentLanguage,        \* the process-wide current locale (line 7)
    pc,                     \* where the main flow stands
    idx,                    \* index in outputLanguages of the loop of line 275
    existingTranslations,   \* local of translateAndSaveNestedObject (line 216)
    missingKeys,            \* local of translateAndSaveNestedObject (line 224)
    stack,                  \* the frames of translateNestedObject (line 239)
    translatedData,         \* local of translateAndSaveNestedObject (line 230)
    awaiting,               \* what the top frame awaits: the slots of one leaf
    calls,                  \* the apiSingleCall invocations not yet consumed
    saves,                  \* the saveTranslations task of each locale
    alive,                  \* FALSE once the process has been terminated
    writes,                 \* per locale, the number of fs.writeFileSync calls
    started,                \* per locale, the number of loop iterations begun
    reported,               \* the console reports of completion made so far
    failures,               \* the calls that exhausted their retries: <<owner, locale>>
    requested,              \* per locale, the apiSingleCall invocations made for it
    filesAtStart,           \* the target files as the run found them
    heap,                   \* the objects and arrays in memory, by address
    refs                    \* the trees the run holds, as places in the heap

vars == <<languageSource, files, currentLanguage, pc, idx, existingTranslations,
          missingKeys, stack, translatedData, awaiting, calls, saves, alive,
          writes, started, reported, failures, requested, filesAtStart,
          heap, refs>>

----------------------------------------------------------------------------
(* JavaScript values                                                       *)

Str(s) == [t |-> "string", s |-> s, k |-> <<>>]
Num(s) == [t |-> "number", s |-> s, k |-> <<>>]
Null == [t |-> "null", s |-> "", k |-> <<>>]
Undefined == [t |-> "undefined", s |-> "", k |-> <<>>]
Entry(n, v) == [n |-> n, val |-> v]
Obj(entries) == [t |-> "object", s |-> "", k |-> entries]
Arr(items) == [t |-> "array", s |-> "",
               k |-> [i \in 1..Len(items) |-> Entry("", items[i])]]
EmptyObj == Obj(<<>>)

\* the set of Object.keys(o)
KeySet(o) == {o.k[i].n : i \in 1..Len(o.k)}
\* o.hasOwnProperty(key)
HasOwnProperty(o, key) == o.t = "object" /\ key \in KeySet(o)
\* o[key] for a property name that is neither an index nor "length":
\* undefined on anything but an object that owns the key
GetProp(o, key) ==
    IF HasOwnProperty(o, key)
    THEN (CHOOSE e \in {o.k[i] : i \in 1..Len(o.k)} : e.n = key).val
    ELSE Undefined
\* o[key] = v: an owned key keeps its place, a new key goes last
SetProp(o, key, v) ==
    IF HasOwnProperty(o, key)
    THEN Obj([i \in 1..Len(o.k) |->
                 IF o.k[i].n = key THEN Entry(key, v) ELSE o.k[i]])
    ELSE Obj(Append(o.k, Entry(key, v)))
\* the truthiness test of `target ? ... : ...`
Truthy(v) ==
    /\ v.t \notin {"undefined", "null"}
    /\ ~(v.t = "string" /\ v.s = "")
    /\ ~(v.t = "number" /\ v.s = "0")
\* typeof v === 'object' && !Array.isArray(v) && v !== null
IsNestedObject(v) == v.t = "object"
\* a slip of line 205: only `=== undefined` is tested
IsNullishUndefinedOnly(v) == v.t = "undefined"
\* v === undefined || v === null
IsNullish(v) == v.t \in {"undefined", "null"}

----------------------------------------------------------------------------
(* findMissingKeys, lines 191-213                                          *)

RECURSIVE FindMissingKeysFrom(_, _, _, _)
RECURSIVE findMissingKeys(_, _)

\* the loop of line 194 from the i-th key of source on
FindMissingKeysFrom(source, target, i, missing) ==
    IF i > Len(source.k) THEN missing
    ELSE LET key == source.k[i].n
             sourceValue == source.k[i].val
             targetValue == IF Truthy(target) THEN GetProp(target, key)
                            ELSE Undefined
         IN IF IsNestedObject(sourceValue)
            THEN LET nestedMissing == findMissingKeys(sourceValue, targetValue)
                 IN IF Len(nestedMissing.k) > 0
                    THEN FindMissingKeysFrom(source, target, i + 1,
                                             SetProp(missing, key, nestedMissing))
                    ELSE FindMissingKeysFrom(source, target, i + 1, missing)
            ELSE IF IsNullish(targetValue)
                 THEN FindMissingKeysFrom(source, target, i + 1,
                                          SetProp(missing, key, sourceValue))
                 ELSE FindMissingKeysFrom(source, target, i + 1, missing)

findMissingKeys(source, target) ==
    FindMissingKeysFrom(source, target, 1, EmptyObj)

----------------------------------------------------------------------------
(* apiSingleCall, lines 154-188                                            *)

DefaultRetryCount == 3
DefaultDelay == 1000

\* what the translation service answers for a text and a target language
\* (response.data[0].translations[0].text)
ProviderText(text, to) == to \o ":" \o text

\* One invocation of apiSingleCall.  value, to, retryCount: the arguments;
\* delay: the local of that name; attempt: the loop counter; st: "posted"
\* (awaiting axios.post), "sleeping" (awaiting sleep), "returned", "thrown";
\* posts: the requests sent, sleeps: the waits made, logged: the attempt
\* indices of console.error, firstDelay: the delay argument as passed;
\* owner, locale, slot: who awaits the call and on behalf of which locale.
apiSingleCall(value, to, retryCount, delay, owner, locale, slot) ==
    [value |-> value, to |-> to, retryCount |-> retryCount, delay |-> delay,
     firstDelay |-> delay, attempt |-> 1,
     st |-> IF 1 <= retryCount THEN "posted" ELSE "returned",
     result |-> Undefined,
     posts |-> IF 1 <= retryCount THEN <<[text |-> value, to |-> to]>> ELSE <<>>,
     sleeps |-> <<>>, logged |-> <<>>,
     owner |-> owner, locale |-> locale, slot |-> slot]

\* line 175: the request succeeded
OnResponse(c) ==
    [c EXCEPT !.st = "returned", !.result = Str(ProviderText(c.value, c.to))]

\* lines 176-185: the request failed
OnError(c) ==
    IF c.attempt < c.retryCount
    THEN [c EXCEPT !.logged = Append(@, c.attempt), !.st = "sleeping",
                   !.sleeps = Append(@, c.delay)]
    ELSE [c EXCEPT !.logged = Append(@, c.attempt), !.st = "thrown"]

\* a slip of line 182: the delay is not doubled
OnTimerNoBackoff(c) ==
    [c EXCEPT !.attempt = @ + 1, !.st = "posted",
              !.posts = Append(@, [text |-> c.value, to |-> c.to])]
\* lines 181-182, 164-166: the sleep is over, the next attempt is sent
OnTimer(c) ==
    [c EXCEPT !.delay = @ * 2, !.attempt = @ + 1, !.st = "posted",
              !.posts = Append(@, [text |-> c.value, to |-> c.to])]

----------------------------------------------------------------------------
(* Paths of a tree: what the statements about trees are written with       *)

RECURSIVE PathsOf(_)
\* the key paths of every entry of a tree, nested trees descended into
PathsOf(v) ==
    IF v.t # "object" THEN {}
    ELSE UNION {{<<v.k[i].n>>} \cup {<<v.k[i].n>> \o p : p \in PathsOf(v.k[i].val)}
                : i \in 1..Len(v.k)}

RECURSIVE At(_, _)
\* the value at a path, undefined where the path leaves the tree
At(v, p) == IF p = <<>> THEN v ELSE At(GetProp(v, Head(p)), Tail(p))

\* the value is missing from a tree, or null in it
AbsentOrNull(v) == v = Undefined \/ v = Null

IsPrefix(p, q) == Len(p) <= Len(q) /\ SubSeq(q, 1, Len(p)) = p

\* the paths of a tree's leaves: every value that is not a nested tree
LeafPathsOf(v) == {p \in PathsOf(v) : ~IsNestedObject(At(v, p))}

----------------------------------------------------------------------------
(* Bounded sets of trees                                                   *)

Keys == <<"a", "b">>
RangeOf(seq) == {seq[i] : i \in 1..Len(seq)}
KeysIn(K) == SelectSeq(Keys, LAMBDA x : x \in K)
\* every object whose keys are some of Keys, in that order, with values in V
ObjectsOver(V) ==
    UNION {{Obj([i \in 1..Len(KeysIn(K)) |-> Entry(KeysIn(K)[i], f[KeysIn(K)[i]])])
            : f \in [K -> V]} : K \in SUBSET RangeOf(Keys)}

SourceLeaves == {Str("A"), Null, Arr(<<Str("A"), Num("1")>>)}
TargetLeaves == {Str("X"), Str(""), Null}
\* trees of depth two, and two of depth three
DeepSource == Obj(<<Entry("a", Obj(<<Entry("a", Obj(<<Entry("a", Str("A")), Entry("b", Str("B"))>>))>>))>>)
DeepTarget == Obj(<<Entry("a", Obj(<<Entry("a", Obj(<<Entry("a", Str("X"))>>))>>))>>)
SourceTrees == ObjectsOver(SourceLeaves \cup ObjectsOver(SourceLeaves)) \cup {DeepSource}
TargetTrees == ObjectsOver(TargetLeaves \cup ObjectsOver(TargetLeaves)) \cup {DeepTarget}

----------------------------------------------------------------------------
(* The specification of findMissingKeys alone: any source, any target      *)

\* the orchestrator's state where the orchestrator does not run
NoRun ==
    /\ files = <<>> /\ currentLanguage = "" /\ idx = 0 /\ stack = <<>>
    /\ translatedData = Undefined /\ awaiting = <<>> /\ saves = <<>>
    /\ alive = TRUE /\ writes = <<>> /\ started = <<>> /\ reported = {}
    /\ failures = {} /\ requested = <<>> /\ filesAtStart = <<>>
    /\ heap = <<>> /\ refs = <<>>
NoRunUnchanged ==
    UNCHANGED <<files, currentLanguage, idx, stack, translatedData, awaiting,
                saves, alive, writes, started, reported, failures, requested,
                filesAtStart, heap, refs>>

InitDiff ==
    /\ languageSource \in SourceTrees
    /\ existingTranslations \in TargetTrees
    /\ missingKeys = Undefined
    /\ pc = "diff"
    /\ calls = <<>>
    /\ NoRun

\* line 224
Diff ==
    /\ pc = "diff"
    /\ missingKeys' = findMissingKeys(languageSource, existingTranslations)
    /\ pc' = "diffed"
    /\ UNCHANGED <<languageSource, existingTranslations, calls>>
    /\ NoRunUnchanged

NextDiff == Diff
SpecDiff == InitDiff /\ [][NextDiff]_vars

----------------------------------------------------------------------------
(* The specification of apiSingleCall alone: any arguments, any provider   *)

MaxRetry == 4
Texts == {"A", "B"}
Delays == {DefaultDelay, 250}
AllLanguages == <<"es", "lzh", "fr", "ar">>

InitApi ==
    /\ pc = "api"
    /\ calls = <<>>
    /\ languageSource = EmptyObj /\ existingTranslations = EmptyObj
    /\ missingKeys = EmptyObj
    /\ NoRun

ApiUnchanged ==
    /\ UNCHANGED <<languageSource, existingTranslations, missingKeys>>
    /\ NoRunUnchanged

\* line 154: the call, up to its first request
ApiInvoke ==
    /\ pc = "api"
    /\ \E value \in Texts, to \in RangeOf(AllLanguages),
          retryCount \in 0..MaxRetry, delay \in Delays :
          calls' = <<apiSingleCall(value, to, retryCount, delay, "caller", to, 0)>>
    /\ pc' = "called"
    /\ ApiUnchanged

ApiResponse ==
    /\ pc = "called" /\ calls[1].st = "posted"
    /\ calls' = [calls EXCEPT ![1] = OnResponse(@)]
    /\ UNCHANGED pc /\ ApiUnchanged

ApiError ==
    /\ pc = "called" /\ calls[1].st = "posted"
    /\ calls' = [calls EXCEPT ![1] = OnError(@)]
    /\ UNCHANGED pc /\ ApiUnchanged

ApiTimer ==
    /\ pc = "called" /\ calls[1].st = "sleeping"
    /\ calls' = [calls EXCEPT ![1] = OnTimer(@)]
    /\ UNCHANGED pc /\ ApiUnchanged

NextApi == ApiInvoke \/ ApiResponse \/ ApiError \/ ApiTimer
SpecApi == InitApi /\ [][NextApi]_vars

RECURSIVE Pow2(_)
Pow2(n) == IF n = 0 THEN 1 ELSE 2 * Pow2(n - 1)

----------------------------------------------------------------------------
(* The run: translateForAllLanguages and what it calls                     *)
(*                                                                         *)
(* Node runs one callback at a time, and runs it with every continuation   *)
(* it makes ready before it takes the next answer or timer.  The main flow *)
(* is therefore stepped while pc is "loop", "translate" or "save", and an  *)
(* answer, an error or a timer is taken only when the main flow awaits     *)
(* ("await") or has ended ("done", "aborted").                             *)

NumLocales == 2
outputLanguages == SubSeq(AllLanguages, 1, NumLocales)
Locales == RangeOf(outputLanguages)
\* the language the loop of line 275 stands at: the desiredLanguage parameter
desiredLanguage == outputLanguages[idx]

\* fs.existsSync(filePath) is false
NoFile == [t |-> "nofile", s |-> "", k |-> <<>>]

RECURSIVE SpreadFrom(_, _, _)
SpreadFrom(into, from, i) ==
    IF i > Len(from.k) THEN into
    ELSE SpreadFrom(SetProp(into, from.k[i].n, from.k[i].val), from, i + 1)
\* a slip of line 233: `...existingTranslations` left out
ObjectSpreadSecondOnly(a, b) == SpreadFrom(EmptyObj, b, 1)
\* { ...a, ...b }
ObjectSpread(a, b) == SpreadFrom(SpreadFrom(EmptyObj, a, 1), b, 1)

\* Intl.DateTimeFormat(localeCode, ...) for the 7 days or the 12 months: the
\* names are stood for by one text that names the locale code and the format
IntlNames(localeCode, unit, format) ==
    Arr(<<Str(localeCode \o "-" \o unit \o "-" \o format)>>)

\* a slip of line 40: the locale name handed to Intl as it is
CalendarLocaleNoAlias(localeName, today) ==
    Obj(<<Entry("monthNames", IntlNames(localeName, "month", "long")),
          Entry("monthNamesShort", IntlNames(localeName, "month", "short")),
          Entry("dayNames", IntlNames(localeName, "weekday", "long")),
          Entry("dayNamesShort", IntlNames(localeName, "weekday", "short")),
          Entry("today", today)>>)
\* daysForLocale, lines 39-55, given the answer of its 'Hoje' call
CalendarLocale(localeName, today) ==
    LET localeCode == IF localeName = "lzh" THEN "zh" ELSE localeName
    IN Obj(<<Entry("monthNames", IntlNames(localeCode, "month", "long")),
             Entry("monthNamesShort", IntlNames(localeCode, "month", "short")),
             Entry("dayNames", IntlNames(localeCode, "weekday", "long")),
             Entry("dayNamesShort", IntlNames(localeCode, "weekday", "short")),
             Entry("today", today)>>)

\* a slip of line 242: the entries visited from the last to the first
FrameReversed(obj) ==
    [todo |-> [j \in 1..Len(obj.k) |-> obj.k[Len(obj.k) + 1 - j]], out |-> <<>>]
\* a frame of translateNestedObject: the entries still to visit, and
\* translatedObj so far
Frame(obj) == [todo |-> obj.k, out |-> <<>>]
Top == stack[Len(stack)]
NoLeaf == [kind |-> "none", slots |-> <<>>]
\* The saveTranslations task of a locale.  st: "none" (not called),
\* "awaiting" (at the await of line 106), "written", "rejected"; data,
\* missingKeys: its arguments; localeName: the argument of daysForLocale;
\* existing, translated: the operands of the merge of line 233 that made data.
NoSave == [st |-> "none", data |-> Undefined, missingKeys |-> Undefined,
           localeName |-> "", existing |-> Undefined, translated |-> Undefined]
Request(owner, text, to) == <<owner, text, to>>
Slot(done, val) == [done |-> done, val |-> val]

\* a slip of lines 245-253: the key set in front of the keys set before it
AssignInFront(stk, key, val) ==
    [stk EXCEPT ![Len(stk)] = [todo |-> Tail(@.todo),
                               out |-> <<Entry(key, val)>> \o @.out]]
\* translatedObj[key] = val in the top frame, and on to the next key
Assign(stk, key, val) ==
    [stk EXCEPT ![Len(stk)] = [todo |-> Tail(@.todo),
                               out |-> SetProp(Obj(@.out), key, val).k]]

RemoveAt(seq, i) == SubSeq(seq, 1, i - 1) \o SubSeq(seq, i + 1, Len(seq))

RECURSIVE ElementCallsEveryItem(_, _, _)
\* a slip of line 248: the typeof test left out, a call for every element
ElementCallsEveryItem(items, j, language) ==
    IF j > Len(items) THEN <<>>
    ELSE <<apiSingleCall(items[j].val.s, language, DefaultRetryCount,
                         DefaultDelay, "translate", language, j)>>
         \o ElementCallsEveryItem(items, j + 1, language)

RECURSIVE ElementCalls(_, _, _)
\* line 248: one apiSingleCall per string element, from element j on
ElementCalls(items, j, language) ==
    IF j > Len(items) THEN <<>>
    ELSE (IF items[j].val.t = "string"
          THEN <<apiSingleCall(items[j].val.s, language, DefaultRetryCount,
                               DefaultDelay, "translate", language, j)>>
          ELSE <<>>) \o ElementCalls(items, j + 1, language)

\* the source trees and the target files of the runs
Source1 ==
    Obj(<<Entry("greeting", Str("Hello")),
          Entry("nested", Obj(<<Entry("a", Str("Yes")), Entry("b", Str("No"))>>)),
          Entry("calendar_locale", Obj(<<Entry("today", Str("Hoje"))>>))>>)
Source2 ==
    Obj(<<Entry("greeting", Str("Hello")),
          Entry("list", Arr(<<Str("Hello"), Num("7"), Str("Bye")>>)),
          Entry("count", Num("7"))>>)
\* an array without strings, a null: nothing of them is sent
Source3 ==
    Obj(<<Entry("greeting", Str("Hello")),
          Entry("nums", Arr(<<Num("1"), Num("2"), Num("3")>>)),
          Entry("none", Null),
          Entry("nested", Obj(<<Entry("a", Str("Yes"))>>))>>)
Sources == {Source1, Source2, Source3}

\* everything translated, and a key the source does not have
TargetFull ==
    Obj(<<Entry("greeting", Str("Hola")),
          Entry("nested", Obj(<<Entry("a", Str("Si")), Entry("b", Str("No"))>>)),
          Entry("calendar_locale", Obj(<<Entry("today", Str("Hoy"))>>)),
          Entry("list", Arr(<<Str("Hola")>>)),
          Entry("count", Num("1")),
          Entry("extra", Str("kept"))>>)
\* a nested tree half translated, no calendar
TargetPartial ==
    Obj(<<Entry("extra", Str("kept")),
          Entry("greeting", Str("Hola")),
          Entry("nested", Obj(<<Entry("a", Str("Si"))>>))>>)
\* a null value, a calendar
TargetNull ==
    Obj(<<Entry("greeting", Null),
          Entry("nested", Obj(<<Entry("a", Str("Si"))>>)),
          Entry("calendar_locale", Obj(<<Entry("today", Str("Hoy"))>>)),
          Entry("count", Num("1"))>>)
TargetFiles == {NoFile, TargetFull, TargetPartial, TargetNull}

Init ==
    /\ languageSource \in Sources
    /\ files \in [Locales -> TargetFiles]
    /\ currentLanguage = ""
    /\ pc = "loop"
    /\ idx = 1
    /\ existingTranslations = EmptyObj
    /\ missingKeys = EmptyObj
    /\ stack = <<>>
    /\ translatedData = Undefined
    /\ awaiting = NoLeaf
    /\ calls = <<>>
    /\ saves = [l \in Locales |-> NoSave]
    /\ alive = TRUE
    /\ writes = [l \in Locales |-> 0]
    /\ started = [l \in Locales |-> 0]
    /\ reported = {}
    /\ failures = {}
    /\ requested = [l \in Locales |-> <<>>]
    /\ filesAtStart = files
    /\ heap = <<>> /\ refs = <<>>

\* Object.keys(missingKeys).length === 0 with the test left out
NothingMissingNever(missing) == FALSE
\* line 226
NothingMissing(missing) == Len(missing.k) = 0

\* a slip: line 276 left out, currentLanguage is never set
NextLanguageKeepsCurrent ==
    /\ alive /\ pc = "loop" /\ idx <= Len(outputLanguages)
    /\ LET language == outputLanguages[idx]
           existing == IF files[language] = NoFile THEN EmptyObj
                       ELSE files[language]
           missing == findMissingKeys(languageSource, existing)
       IN /\ started' = [started EXCEPT ![language] = @ + 1]
          /\ existingTranslations' = existing
          /\ missingKeys' = missing
          /\ IF NothingMissing(missing)
             THEN /\ reported' = reported \cup {<<"keys", language>>,
                                                <<"language", language>>}
                  /\ idx' = idx + 1
                  /\ UNCHANGED <<pc, stack>>
             ELSE /\ stack' = <<Frame(missing)>>
                  /\ pc' = "translate"
                  /\ UNCHANGED <<reported, idx>>
    /\ UNCHANGED <<languageSource, files, currentLanguage, translatedData,
                   awaiting, calls, saves, alive, writes, failures, requested,
                   filesAtStart>>
    /\ UNCHANGED <<heap, refs>>

\* lines 275-278, 264-269, 215-229 (and 271, 279 when nothing is missing)
NextLanguage ==
    /\ alive /\ pc = "loop" /\ idx <= Len(outputLanguages)
    /\ LET language == outputLanguages[idx]
           existing == IF files[language] = NoFile THEN EmptyObj
                       ELSE files[language]
           missing == findMissingKeys(languageSource, existing)
       IN /\ currentLanguage' = language
          /\ started' = [started EXCEPT ![language] = @ + 1]
          /\ existingTranslations' = existing
          /\ missingKeys' = missing
          /\ IF NothingMissing(missing)
             THEN /\ reported' = reported \cup {<<"keys", language>>,
                                                <<"language", language>>}
                  /\ idx' = idx + 1
                  /\ UNCHANGED <<pc, stack>>
             ELSE /\ stack' = <<Frame(missing)>>
                  /\ pc' = "translate"
                  /\ UNCHANGED <<reported, idx>>
    /\ UNCHANGED <<languageSource, files, translatedData, awaiting, calls,
                   saves, alive, writes, failures, requested, filesAtStart>>
    /\ UNCHANGED <<heap, refs>>

\* line 281
AllDone ==
    /\ alive /\ pc = "loop" /\ idx > Len(outputLanguages)
    /\ reported' = reported \cup {<<"all", "">>}
    /\ pc' = "done"
    /\ UNCHANGED <<languageSource, files, currentLanguage, idx,
                   existingTranslations, missingKeys, stack, translatedData,
                   awaiting, calls, saves, alive, writes, started, failures,
                   requested, filesAtStart>>
    /\ UNCHANGED <<heap, refs>>

\* lines 242-255: the next key of the top frame
TranslateKey ==
    /\ alive /\ pc = "translate" /\ stack # <<>> /\ Top.todo # <<>>
    /\ LET key == Head(Top.todo).n
           value == Head(Top.todo).val
       IN CASE value.t = "string" ->
                 /\ calls' = Append(calls,
                        apiSingleCall(value.s, desiredLanguage, DefaultRetryCount,
                                      DefaultDelay, "translate", desiredLanguage, 1))
                 /\ requested' = [requested EXCEPT ![desiredLanguage] =
                        Append(@, Request("translate", value.s, desiredLanguage))]
                 /\ awaiting' = [kind |-> "string", slots |-> <<Slot(FALSE, Undefined)>>]
                 /\ pc' = "await"
                 /\ UNCHANGED stack
            [] value.t = "array" ->
                 LET slots == [j \in 1..Len(value.k) |->
                                  IF value.k[j].val.t = "string"
                                  THEN Slot(FALSE, Undefined)
                                  ELSE Slot(TRUE, value.k[j].val)]
                     made == ElementCalls(value.k, 1, desiredLanguage)
                 IN /\ calls' = calls \o made
                    /\ requested' = [requested EXCEPT ![desiredLanguage] =
                           @ \o [j \in 1..Len(made) |->
                                    Request("translate", made[j].value, made[j].to)]]
                    /\ IF made = <<>>
                       THEN /\ stack' = Assign(stack, key, value)
                            /\ UNCHANGED <<awaiting, pc>>
                       ELSE /\ awaiting' = [kind |-> "array", slots |-> slots]
                            /\ pc' = "await"
                            /\ UNCHANGED stack
            [] value.t = "object" ->
                 /\ stack' = Append(stack, Frame(value))
                 /\ UNCHANGED <<calls, awaiting, pc, requested>>
            [] OTHER ->
                 /\ stack' = Assign(stack, key, value)
                 /\ UNCHANGED <<calls, awaiting, pc, requested>>
    /\ UNCHANGED <<languageSource, files, currentLanguage, idx,
                   existingTranslations, missingKeys, translatedData, saves,
                   alive, writes, started, reported, failures, filesAtStart>>
    /\ UNCHANGED <<heap, refs>>

\* line 257: a frame returns translatedObj, to line 251 or to line 230
ReturnObject ==
    /\ alive /\ pc = "translate" /\ stack # <<>> /\ Top.todo = <<>>
    /\ IF Len(stack) > 1
       THEN /\ stack' = Assign(SubSeq(stack, 1, Len(stack) - 1),
                               Head(stack[Len(stack) - 1].todo).n, Obj(Top.out))
            /\ UNCHANGED <<translatedData, pc>>
       ELSE /\ translatedData' = Obj(Top.out)
            /\ stack' = <<>>
            /\ pc' = "save"
    /\ UNCHANGED <<languageSource, files, currentLanguage, idx,
                   existingTranslations, missingKeys, awaiting, calls, saves,
                   alive, writes, started, reported, failures, requested,
                   filesAtStart>>
    /\ UNCHANGED <<heap, refs>>

\* lines 233-236 with saveTranslations up to its first await (lines 101-106,
\* 39-53) or, with no calendar_locale among the missing keys, to its end
\* (lines 101-119); then lines 271 and 279.  The call of line 235 is not
\* awaited: the task is left to end by itself.
MergeAndSave ==
    /\ alive /\ pc = "save"
    /\ LET language == desiredLanguage
           mergedData == ObjectSpread(existingTranslations, translatedData)
           modifiedData == ObjectSpread(EmptyObj, mergedData)
           task == [NoSave EXCEPT !.data = modifiedData,
                                  !.missingKeys = missingKeys,
                                  !.existing = existingTranslations,
                                  !.translated = translatedData]
       IN /\ IF HasOwnProperty(missingKeys, "calendar_locale")
             THEN /\ calls' = Append(calls,
                         apiSingleCall("Hoje", currentLanguage, DefaultRetryCount,
                                       DefaultDelay, "save", language, 0))
                  /\ requested' = [requested EXCEPT ![language] =
                         Append(@, Request("save", "Hoje", currentLanguage))]
                  /\ saves' = [saves EXCEPT ![language] =
                                  [task EXCEPT !.st = "awaiting",
                                               !.localeName = currentLanguage]]
                  /\ UNCHANGED <<files, writes>>
             ELSE /\ files' = [files EXCEPT ![language] = modifiedData]
                  /\ writes' = [writes EXCEPT ![language] = @ + 1]
                  /\ saves' = [saves EXCEPT ![language] =
                                  [task EXCEPT !.st = "written"]]
                  /\ UNCHANGED <<calls, requested>>
          /\ reported' = reported \cup {<<"saved", language>>, <<"keys", language>>,
                                        <<"language", language>>}
    /\ idx' = idx + 1
    /\ pc' = "loop"
    /\ UNCHANGED <<languageSource, currentLanguage, existingTranslations,
                   missingKeys, stack, translatedData, awaiting, alive, started,
                   failures, filesAtStart>>
    /\ UNCHANGED <<heap, refs>>

\* an answer, an error or a timer can be taken
Idle == alive /\ pc \in {"await", "done", "aborted"}

\* a slip of line 248: the elements that are not strings are dropped
LeafValueStringsOnly(kind, slots) ==
    IF kind = "string" THEN slots[1].val
    ELSE Arr(SelectSeq([j \in 1..Len(slots) |-> slots[j].val],
                       LAMBDA v : v.t = "string"))
\* the value of the leaf awaited, once every slot is filled (lines 245, 247)
LeafValue(kind, slots) ==
    IF kind = "string" THEN slots[1].val
    ELSE Arr([j \in 1..Len(slots) |-> slots[j].val])

\* the service answers call i: apiSingleCall returns (line 175) and its
\* awaiter goes on: translateNestedObject at line 245 or 247, or
\* saveTranslations at lines 106-119
Response(i) ==
    /\ Idle /\ calls[i].st = "posted"
    /\ LET c == OnResponse(calls[i])
       IN /\ calls' = RemoveAt(calls, i)
          /\ IF c.owner = "save"
             THEN /\ files' = [files EXCEPT ![c.locale] =
                         SetProp(saves[c.locale].data, "calendar_locale",
                                 CalendarLocale(saves[c.locale].localeName, c.result))]
                  /\ writes' = [writes EXCEPT ![c.locale] = @ + 1]
                  /\ saves' = [saves EXCEPT ![c.locale].st = "written"]
                  /\ UNCHANGED <<stack, awaiting, pc>>
             ELSE /\ IF pc = "await"
                     THEN LET slots == [awaiting.slots EXCEPT ![c.slot] =
                                           Slot(TRUE, c.result)]
                          IN IF \A j \in 1..Len(slots) : slots[j].done
                             THEN /\ stack' = Assign(stack, Head(Top.todo).n,
                                                     LeafValue(awaiting.kind, slots))
                                  /\ awaiting' = NoLeaf
                                  /\ pc' = "translate"
                             ELSE /\ awaiting' = [awaiting EXCEPT !.slots = slots]
                                  /\ UNCHANGED <<stack, pc>>
                     ELSE UNCHANGED <<stack, awaiting, pc>>
                  /\ UNCHANGED <<files, writes, saves>>
    /\ UNCHANGED <<languageSource, currentLanguage, idx, existingTranslations,
                   missingKeys, translatedData, alive, started, reported,
                   failures, requested, filesAtStart>>
    /\ UNCHANGED <<heap, refs>>

\* the request of call i fails (lines 176-185).  At the last attempt the call
\* throws: the main flow, when it awaits the call, ends with the rejection
\* (nothing catches it up to line 286), and a saveTranslations task ends
\* rejected.  Either rejection is unhandled: Node ends the process there or
\* only warns, by its version and flags.
Error(i) ==
    /\ Idle /\ calls[i].st = "posted"
    /\ LET c == OnError(calls[i])
       IN IF c.st = "sleeping"
          THEN /\ calls' = [calls EXCEPT ![i] = c]
               /\ UNCHANGED <<saves, awaiting, pc, alive, failures>>
          ELSE /\ calls' = RemoveAt(calls, i)
               /\ failures' = failures \cup {<<c.owner, c.locale>>}
               /\ IF c.owner = "save"
                  THEN /\ saves' = [saves EXCEPT ![c.locale].st = "rejected"]
                       /\ alive' \in BOOLEAN
                       /\ UNCHANGED <<awaiting, pc>>
                  ELSE IF pc = "await"
                       THEN /\ pc' = "aborted"
                            /\ awaiting' = NoLeaf
                            /\ alive' \in BOOLEAN
                            /\ UNCHANGED saves
                       ELSE UNCHANGED <<saves, awaiting, pc, alive>>
    /\ UNCHANGED <<languageSource, files, currentLanguage, idx,
                   existingTranslations, missingKeys, stack, translatedData,
                   writes, started, reported, requested, filesAtStart>>
    /\ UNCHANGED <<heap, refs>>

\* the sleep of call i is over (lines 181-182) and the next attempt is sent
Timer(i) ==
    /\ Idle /\ calls[i].st = "sleeping"
    /\ calls' = [calls EXCEPT ![i] = OnTimer(@)]
    /\ UNCHANGED <<languageSource, files, currentLanguage, pc, idx,
                   existingTranslations, missingKeys, stack, translatedData,
                   awaiting, saves, alive, writes, started, reported, failures,
                   requested, filesAtStart>>
    /\ UNCHANGED <<heap, refs>>

Next ==
    \/ NextLanguage \/ AllDone \/ TranslateKey \/ ReturnObject \/ MergeAndSave
    \/ \E i \in DOMAIN calls : Response(i)
    \/ \E i \in DOMAIN calls : Error(i)
    \/ \E i \in DOMAIN calls : Timer(i)

Spec == Init /\ [][Next]_vars

----------------------------------------------------------------------------
(* The run with its trees in memory                                        *)
(*                                                                         *)
(* Above, a tree is a value.  In the program a tree is made of objects and *)
(* arrays that several variables and properties can refer to, and a write  *)
(* to one of them is seen through every reference.  Here heap[a] is the    *)
(* object or array at address a; what a variable or a property holds is a  *)
(* scalar or the address of one of them: [t, s, a].  The provider answers  *)
(* every call at once.                                                     *)

Ref(a) == [t |-> "ref", s |-> "", a |-> a]
Scalar(v) == [t |-> v.t, s |-> v.s, a |-> 0]
HUndefined == Scalar(Undefined)
NoRefs == [source |-> HUndefined, existing |-> HUndefined, missing |-> HUndefined,
           translated |-> HUndefined, merged |-> HUndefined]

\* {} or []: a new object or array, at the address Len(h) + 1
New(h, t) == Append(h, [t |-> t, k |-> <<>>])
\* h[a][key] = val: an owned key keeps its place, a new key goes last
HeapSet(h, a, key, val) ==
    LET k == h[a].k
    IN [h EXCEPT ![a].k =
           IF \E i \in DOMAIN k : k[i].n = key
           THEN [i \in DOMAIN k |-> IF k[i].n = key THEN Entry(key, val) ELSE k[i]]
           ELSE Append(k, Entry(key, val))]
\* the next element of the array at a
HeapPush(h, a, val) == [h EXCEPT ![a].k = Append(@, Entry("", val))]
\* x.hasOwnProperty(key)
HeapHasOwnProperty(h, x, key) ==
    /\ x.t = "ref" /\ h[x.a].t = "object"
    /\ \E i \in DOMAIN h[x.a].k : h[x.a].k[i].n = key
\* x[key]
HeapGet(h, x, key) ==
    IF HeapHasOwnProperty(h, x, key)
    THEN LET k == h[x.a].k IN k[CHOOSE i \in DOMAIN k : k[i].n = key].val
    ELSE HUndefined

RECURSIVE Load(_, _)
RECURSIVE LoadEntries(_, _, _, _)
\* a tree read from a file or built by a literal: new objects all through
LoadEntries(h, a, entries, i) ==
    IF i > Len(entries) THEN h
    ELSE LET c == Load(h, entries[i].val)
         IN LoadEntries([c.h EXCEPT ![a].k = Append(@, Entry(entries[i].n, c.r))],
                        a, entries, i + 1)
Load(h, v) ==
    IF v.t \in {"object", "array"}
    THEN [h |-> LoadEntries(New(h, v.t), Len(h) + 1, v.k, 1), r |-> Ref(Len(h) + 1)]
    ELSE [h |-> h, r |-> Scalar(v)]

RECURSIVE TreeAt(_, _)
\* the tree that x holds in heap h, as a value
TreeAt(h, x) ==
    IF x.t = "ref"
    THEN [t |-> h[x.a].t, s |-> "",
          k |-> [i \in 1..Len(h[x.a].k) |->
                    Entry(h[x.a].k[i].n, TreeAt(h, h[x.a].k[i].val))]]
    ELSE [t |-> x.t, s |-> x.s, k |-> <<>>]

RECURSIVE Reach(_, _)
\* the addresses of the objects and arrays of the tree that x holds
Reach(h, x) ==
    IF x.t = "ref"
    THEN {x.a} \cup UNION {Reach(h, h[x.a].k[i].val) : i \in 1..Len(h[x.a].k)}
    ELSE {}

RECURSIVE HeapFindMissingKeys(_, _, _)
RECURSIVE HeapFindMissingKeysFrom(_, _, _, _, _)
\* the loop of line 194 from the i-th key of source on; m is missingKeys
HeapFindMissingKeysFrom(h, source, target, i, m) ==
    IF i > Len(h[source.a].k) THEN h
    ELSE LET key == h[source.a].k[i].n
             sourceValue == h[source.a].k[i].val
             targetValue == IF Truthy(target) THEN HeapGet(h, target, key)
                            ELSE HUndefined
         IN IF sourceValue.t = "ref" /\ h[sourceValue.a].t = "object"
            THEN LET nestedMissing == HeapFindMissingKeys(h, sourceValue, targetValue)
                 IN IF Len(nestedMissing.h[nestedMissing.r.a].k) > 0
                    THEN HeapFindMissingKeysFrom(
                             HeapSet(nestedMissing.h, m, key, nestedMissing.r),
                             source, target, i + 1, m)
                    ELSE HeapFindMissingKeysFrom(nestedMissing.h, source, target,
                                                 i + 1, m)
            ELSE IF IsNullish(targetValue)
                 THEN HeapFindMissingKeysFrom(HeapSet(h, m, key, sourceValue),
                                              source, target, i + 1, m)
                 ELSE HeapFindMissingKeysFrom(h, source, target, i + 1, m)
\* lines 191-213
HeapFindMissingKeys(h, source, target) ==
    [h |-> HeapFindMissingKeysFrom(New(h, "object"), source, target, 1, Len(h) + 1),
     r |-> Ref(Len(h) + 1)]

RECURSIVE HeapMapItems(_, _, _, _, _)
\* lines 247-249: the new array out, from element j of items on
HeapMapItems(h, items, j, language, out) ==
    IF j > Len(items) THEN h
    ELSE HeapMapItems(
             HeapPush(h, out,
                      IF items[j].val.t = "string"
                      THEN Scalar(Str(ProviderText(items[j].val.s, language)))
                      ELSE items[j].val),
             items, j + 1, language, out)

RECURSIVE HeapTranslate(_, _, _)
RECURSIVE HeapTranslateFrom(_, _, _, _, _)
\* the loop of line 242 from the i-th entry of obj on; o is translatedObj
HeapTranslateFrom(h, obj, i, language, o) ==
    IF i > Len(h[obj.a].k) THEN h
    ELSE LET key == h[obj.a].k[i].n
             value == h[obj.a].k[i].val
         IN CASE value.t = "string" ->
                   HeapTranslateFrom(
                       HeapSet(h, o, key, Scalar(Str(ProviderText(value.s, language)))),
                       obj, i + 1, language, o)
              [] value.t = "ref" /\ h[value.a].t = "array" ->
                   HeapTranslateFrom(
                       HeapSet(HeapMapItems(New(h, "array"), h[value.a].k, 1,
                                            language, Len(h) + 1),
                               o, key, Ref(Len(h) + 1)),
                       obj, i + 1, language, o)
              [] value.t = "ref" /\ h[value.a].t = "object" ->
                   LET c == HeapTranslate(h, value, language)
                   IN HeapTranslateFrom(HeapSet(c.h, o, key, c.r), obj, i + 1,
                                        language, o)
              [] OTHER ->
                   HeapTranslateFrom(HeapSet(h, o, key, value), obj, i + 1,
                                     language, o)
\* lines 239-258
HeapTranslate(h, obj, language) ==
    [h |-> HeapTranslateFrom(New(h, "object"), obj, 1, language, Len(h) + 1),
     r |-> Ref(Len(h) + 1)]

RECURSIVE HeapCopyFrom(_, _, _, _)
\* the own properties of from, from the i-th on, set on the object at o
HeapCopyFrom(h, o, from, i) ==
    IF from.t # "ref" \/ i > Len(h[from.a].k) THEN h
    ELSE HeapCopyFrom(HeapSet(h, o, h[from.a].k[i].n, h[from.a].k[i].val),
                      o, from, i + 1)
\* a slip of lines 233 and 101: Object.assign(a, b), the properties of b set
\* on a itself
HeapSpreadInPlace(h, a, b) == [h |-> HeapCopyFrom(h, a.a, b, 1), r |-> a]
\* { ...a, ...b }: a new object; the values are shared, not copied
HeapSpread(h, a, b) ==
    [h |-> HeapCopyFrom(HeapCopyFrom(New(h, "object"), Len(h) + 1, a, 1),
                        Len(h) + 1, b, 1),
     r |-> Ref(Len(h) + 1)]

\* line 149 has loaded the source; existingTranslations and missingKeys keep,
\* as values, the tree read at lines 218-221 and the diff as computed
InitHeap ==
    /\ languageSource \in Sources
    /\ files \in [Locales -> TargetFiles]
    /\ filesAtStart = files
    /\ heap = Load(<<>>, languageSource).h
    /\ refs = [NoRefs EXCEPT !.source = Load(<<>>, languageSource).r]
    /\ currentLanguage = ""
    /\ pc = "h_loop"
    /\ idx = 1
    /\ existingTranslations = Undefined
    /\ missingKeys = Undefined
    /\ writes = [l \in Locales |-> 0]
    /\ started = [l \in Locales |-> 0]
    /\ stack = <<>> /\ translatedData = Undefined /\ awaiting = <<>>
    /\ calls = <<>> /\ saves = <<>> /\ alive = TRUE /\ reported = {}
    /\ failures = {} /\ requested = <<>>

HeapUnchanged ==
    UNCHANGED <<languageSource, filesAtStart, stack, translatedData, awaiting,
                calls, saves, alive, reported, failures, requested>>

\* lines 275-278, 264-269, 216-229
HeapNextLanguage ==
    /\ pc = "h_loop" /\ idx <= Len(outputLanguages)
    /\ LET language == outputLanguages[idx]
           read == IF files[language] = NoFile THEN EmptyObj ELSE files[language]
           existing == Load(heap, read)
           missing == HeapFindMissingKeys(existing.h, refs.source, existing.r)
       IN /\ currentLanguage' = language
          /\ started' = [started EXCEPT ![language] = @ + 1]
          /\ heap' = missing.h
          /\ refs' = [NoRefs EXCEPT !.source = refs.source,
                                    !.existing = existing.r,
                                    !.missing = missing.r]
          /\ existingTranslations' = read
          /\ missingKeys' = TreeAt(missing.h, missing.r)
          /\ IF Len(missing.h[missing.r.a].k) = 0
             THEN idx' = idx + 1 /\ UNCHANGED pc
             ELSE pc' = "h_translate" /\ UNCHANGED idx
    /\ UNCHANGED <<files, writes>>
    /\ HeapUnchanged

\* line 230
HeapTranslateAll ==
    /\ pc = "h_translate"
    /\ LET translated == HeapTranslate(heap, refs.missing, desiredLanguage)
       IN /\ heap' = translated.h
          /\ refs' = [refs EXCEPT !.translated = translated.r]
    /\ pc' = "h_save"
    /\ UNCHANGED <<files, currentLanguage, idx, existingTranslations,
                   missingKeys, writes, started>>
    /\ HeapUnchanged

\* lines 233-236, 100-119, 39-55, 271, 279
HeapMergeAndSave ==
    /\ pc = "h_save"
    /\ LET mergedData == HeapSpread(heap, refs.existing, refs.translated)
           modifiedData == HeapSpread(mergedData.h, mergedData.r, HUndefined)
           calendarLocale ==
               Load(modifiedData.h,
                    CalendarLocale(currentLanguage,
                                   Str(ProviderText("Hoje", currentLanguage))))
           written ==
               IF HeapHasOwnProperty(heap, refs.missing, "calendar_locale")
               THEN HeapSet(calendarLocale.h, modifiedData.r.a, "calendar_locale",
                            calendarLocale.r)
               ELSE modifiedData.h
       IN /\ heap' = written
          /\ refs' = [refs EXCEPT !.merged = mergedData.r]
          /\ files' = [files EXCEPT ![desiredLanguage] = TreeAt(written, modifiedData.r)]
          /\ writes' = [writes EXCEPT ![desiredLanguage] = @ + 1]
    /\ idx' = idx + 1
    /\ pc' = "h_loop"
    /\ UNCHANGED <<currentLanguage, existingTranslations, missingKeys, started>>
    /\ HeapUnchanged

\* line 281
HeapAllDone ==
    /\ pc = "h_loop" /\ idx > Len(outputLanguages)
    /\ pc' = "h_done"
    /\ UNCHANGED <<files, currentLanguage, idx, existingTranslations,
                   missingKeys, writes, started, heap, refs>>
    /\ HeapUnchanged

NextHeap == HeapNextLanguage \/ HeapTranslateAll \/ HeapMergeAndSave \/ HeapAllDone
SpecHeap == InitHeap /\ [][NextHeap]_vars

----------------------------------------------------------------------------
(* C1, C2, C5, C6, C7, C10: the run                                        *)

IndexOf(l) == CHOOSE i \in 1..Len(outputLanguages) : outputLanguages[i] = l

\* what translating a leaf into a language must give: a string translated, an
\* array with its string elements translated in place, anything else as it is
TranslatedLeaf(v, to) ==
    CASE v.t = "string" -> Str(ProviderText(v.s, to))
      [] v.t = "array" ->
            [v EXCEPT !.k = [j \in 1..Len(v.k) |->
                IF v.k[j].val.t = "string"
                THEN Entry("", Str(ProviderText(v.k[j].val.s, to)))
                ELSE v.k[j]]]
      [] OTHER -> v

\* C1 as stated: once a locale's iteration has begun, the locale before it
\* has completed its whole pipeline: it had nothing to persist, or its file
\* is written.
C1_NextLocaleAfterPersist ==
    \A i \in 1..(Len(outputLanguages) - 1) :
        started[outputLanguages[i + 1]] > 0 =>
            saves[outputLanguages[i]].st \in {"none", "written"}

\* C2 as stated: once a call made for a locale has exhausted its retries,
\* the run is aborted (the main flow has ended with the failure, or the
\* process is terminated), the locale has no file written, and no later
\* locale is started or written.
C2_FailureAbortsRun ==
    \A f \in failures :
        /\ pc = "aborted" \/ ~alive
        /\ writes[f[2]] = 0
        /\ \A j \in (IndexOf(f[2]) + 1)..Len(outputLanguages) :
              /\ started[outputLanguages[j]] = 0
              /\ writes[outputLanguages[j]] = 0

\* C5: a locale's file is written at most once; a locale with a call that
\* exhausted its retries is not written; an unwritten file is as the run
\* found it; a written file holds, at every leaf of the locale's missing-key
\* tree (the calendar apart), the translation of that leaf, and no call of
\* the locale is then outstanding.
C5_WrittenOnceAndWhole ==
    \A l \in Locales :
        /\ writes[l] <= 1
        /\ (\E f \in failures : f[2] = l) => writes[l] = 0
        /\ writes[l] = 0 => files[l] = filesAtStart[l]
        /\ writes[l] = 1 =>
              /\ \A i \in DOMAIN calls : calls[i].locale # l
              /\ \A p \in LeafPathsOf(saves[l].missingKeys) :
                    Head(p) # "calendar_locale" =>
                        At(files[l], p) =
                            TranslatedLeaf(At(saves[l].missingKeys, p), l)

\* a run aborted part-way through a locale, after a first key was translated,
\* with an earlier locale written
C5_Witness ==
    /\ pc = "aborted" /\ stack # <<>> /\ stack[1].out # <<>>
    /\ writes[desiredLanguage] = 0
    /\ \E l \in Locales : writes[l] = 1 /\ saves[l].missingKeys # Undefined

\* C6 as stated: every non-null value the existing target tree holds at a
\* leaf path, at any depth, is at that path in the tree persisted for the
\* locale.
C6_ExistingValuesKeptAtEveryDepth ==
    \A l \in Locales :
        writes[l] >= 1 =>
            \A p \in LeafPathsOf(saves[l].existing) :
                ~AbsentOrNull(At(saves[l].existing, p)) =>
                    /\ At(saves[l].data, p) = At(saves[l].existing, p)
                    /\ At(files[l], p) = At(saves[l].existing, p)

\* C7: every top-level key that is non-null in the existing tree and absent
\* from the translated tree has the existing value in the merged tree handed
\* to saveTranslations, and in the file once it is written.
C7_MergeKeepsTopLevelKeys ==
    \A l \in Locales :
        saves[l].st # "none" =>
            \A k \in KeySet(saves[l].existing) :
                (/\ ~AbsentOrNull(GetProp(saves[l].existing, k))
                 /\ k \notin KeySet(saves[l].translated)) =>
                    /\ GetProp(saves[l].data, k) = GetProp(saves[l].existing, k)
                    /\ writes[l] >= 1 =>
                          GetProp(files[l], k) = GetProp(saves[l].existing, k)

\* a file written with the key that only the target had, beside a new key
C7_Witness ==
    \E l \in Locales :
        /\ writes[l] = 1
        /\ GetProp(saves[l].existing, "extra") = Str("kept")
        /\ ~HasOwnProperty(saves[l].translated, "extra")
        /\ GetProp(files[l], "extra") = Str("kept")
        /\ KeySet(saves[l].translated) # {}

\* C10: a locale whose diff is empty gets no apiSingleCall and no write, no
\* saveTranslations, and the loop has gone on past it.
C10_EmptyDiffIsNoOp ==
    \A l \in Locales :
        (/\ started[l] > 0
         /\ findMissingKeys(languageSource,
                            IF filesAtStart[l] = NoFile THEN EmptyObj
                            ELSE filesAtStart[l]) = EmptyObj) =>
            /\ requested[l] = <<>>
            /\ \A i \in DOMAIN calls : calls[i].locale # l
            /\ writes[l] = 0
            /\ files[l] = filesAtStart[l]
            /\ saves[l].st = "none"
            /\ idx > IndexOf(l)
            /\ <<"language", l>> \in reported

\* the first locale had nothing missing and the second one is being
\* translated
C10_Witness ==
    /\ started[outputLanguages[1]] > 0
    /\ filesAtStart[outputLanguages[1]] # NoFile
    /\ findMissingKeys(languageSource, filesAtStart[outputLanguages[1]]) = EmptyObj
    /\ requested[outputLanguages[2]] # <<>>

----------------------------------------------------------------------------
(* C3, C4: apiSingleCall                                                   *)

\* C3: a call whose provider failed n-1 times and then succeeded returns the
\* provider's text after exactly n requests, n <= retryCount, each with the
\* call's text and target language; the errors logged are attempts 1..n-1;
\* the k-th wait is delay * 2^(k-1), and there are n-1 waits, none after the
\* success.
C3_RetryThenSuccess ==
    \A i \in DOMAIN calls :
        LET c == calls[i]
            n == Len(c.posts)
        IN (c.st = "returned" /\ c.retryCount >= 1) =>
            /\ c.result = Str(ProviderText(c.value, c.to))
            /\ 1 <= n /\ n <= c.retryCount
            /\ \A j \in 1..n : c.posts[j] = [text |-> c.value, to |-> c.to]
            /\ c.logged = [j \in 1..(n - 1) |-> j]
            /\ c.sleeps = [j \in 1..(n - 1) |-> c.firstDelay * Pow2(j - 1)]

\* a call with the default delay that succeeded at its third request, after
\* waits of 1000 and 2000
C3_Witness ==
    \E i \in DOMAIN calls :
        /\ calls[i].st = "returned" /\ Len(calls[i].posts) = 3
        /\ calls[i].sleeps = <<1000, 2000>>

----------------------------------------------------------------------------
(* C8, C9: findMissingKeys                                                 *)

\* C8 as stated: once the diff is computed, every key path of the source is
\* in the result exactly when the target's value at the same path is absent
\* or null.
C8_DiffIffAbsentOrNull ==
    pc = "diffed" =>
        \A p \in PathsOf(languageSource) :
            (p \in PathsOf(missingKeys)) <=> AbsentOrNull(At(existingTranslations, p))

\* C8 amended: the result holds only key paths of the source; a source leaf
\* (string, array, scalar, null) is in the result, with the source's value,
\* exactly when the target's value at the same path is absent or null,
\* whatever the target's content; a key whose source value is a nested tree
\* is in the result exactly when some source leaf below it is.
C8_DiffLeafIffAbsentOrNull ==
    pc = "diffed" =>
        /\ PathsOf(missingKeys) \subseteq PathsOf(languageSource)
        /\ \A p \in PathsOf(languageSource) :
              IF IsNestedObject(At(languageSource, p))
              THEN (p \in PathsOf(missingKeys)) <=>
                     \E q \in LeafPathsOf(languageSource) :
                         IsPrefix(p, q) /\ AbsentOrNull(At(existingTranslations, q))
              ELSE /\ (p \in PathsOf(missingKeys)) <=>
                         AbsentOrNull(At(existingTranslations, p))
                   /\ p \in PathsOf(missingKeys) =>
                         At(missingKeys, p) = At(languageSource, p)

\* a diff with a nested leaf reported for a null target value, and a leaf
\* left out because the target holds another, non-null content there
C8_Witness ==
    /\ pc = "diffed"
    /\ \E p \in LeafPathsOf(languageSource) :
          /\ Len(p) = 2 /\ p \in PathsOf(missingKeys)
          /\ At(existingTranslations, p) = Null
    /\ \E p \in LeafPathsOf(languageSource) :
          /\ At(languageSource, p) = Str("A")
          /\ At(existingTranslations, p) = Str("X")
          /\ p \notin PathsOf(missingKeys)

\* C9 as stated: a key that the target holds with a non-null value is not in
\* the result, at any depth, also when the shapes differ (a key that is a
\* nested tree on both sides only leads to the keys below it, and is not
\* counted).
C9_PresentKeyNeverIncluded ==
    pc = "diffed" =>
        \A p \in PathsOf(existingTranslations) :
            (/\ ~AbsentOrNull(At(existingTranslations, p))
             /\ ~(/\ IsNestedObject(At(languageSource, p))
                  /\ IsNestedObject(At(existingTranslations, p))))
            => p \notin PathsOf(missingKeys)

----------------------------------------------------------------------------
(* C11, C12: what translateNestedObject sends and returns                  *)

Count(seq, x) == Cardinality({i \in DOMAIN seq : seq[i] = x})
Concat(seqs) ==
    LET RECURSIVE From(_)
        From(i) == IF i > Len(seqs) THEN <<>> ELSE seqs[i] \o From(i + 1)
    IN From(1)

RECURSIVE StringsOf(_)
\* the texts of a tree that are to be translated: its string leaves and the
\* string elements of its array leaves, at every depth
StringsOf(v) ==
    CASE v.t = "string" -> <<v.s>>
      [] v.t = "array" ->
            Concat([j \in 1..Len(v.k) |->
                       IF v.k[j].val.t = "string" THEN <<v.k[j].val.s>> ELSE <<>>])
      [] v.t = "object" -> Concat([j \in 1..Len(v.k) |-> StringsOf(v.k[j].val)])
      [] OTHER -> <<>>

\* the calls made for a locale by one owner: "translate" or "save"
RequestsBy(l, owner) == SelectSeq(requested[l], LAMBDA r : r[1] = owner)

\* C11: for a locale whose translation has ended well, the texts of the
\* translator's calls are, as a multiset, the string leaves and string array
\* elements of the locale's missing-key tree, each call for that locale; every
\* leaf of the missing-key tree is absent or null in the target; and beside
\* them there is one 'Hoje' call when calendar_locale is a top-level missing
\* key, and none otherwise.
C11_SentIsMissingStrings ==
    \A l \in Locales :
        saves[l].st # "none" =>
            LET sent == RequestsBy(l, "translate")
                want == StringsOf(saves[l].missingKeys)
                today == RequestsBy(l, "save")
            IN /\ Len(sent) = Len(want)
               /\ \A i \in DOMAIN sent :
                     /\ sent[i][3] = l
                     /\ Count([j \in DOMAIN sent |-> sent[j][2]], sent[i][2])
                            = Count(want, sent[i][2])
               /\ \A p \in LeafPathsOf(saves[l].missingKeys) :
                     AbsentOrNull(At(saves[l].existing, p))
               /\ today = IF "calendar_locale" \in KeySet(saves[l].missingKeys)
                          THEN <<Request("save", "Hoje", l)>> ELSE <<>>

\* a locale translated with the same text sent twice, a number of an array
\* not sent, and a key the target already had not sent
C11_Witness ==
    \E l \in Locales :
        /\ saves[l].st = "written"
        /\ Count(RequestsBy(l, "translate"), Request("translate", "Hello", l)) = 2
        /\ Len(RequestsBy(l, "translate")) = 3
        /\ GetProp(saves[l].missingKeys, "list") = GetProp(languageSource, "list")
        /\ ~AbsentOrNull(GetProp(saves[l].existing, "count"))

RECURSIVE Translated(_, _)
\* what translating a tree into a language must give: the same keys in the
\* same order, nested trees translated likewise, every leaf as TranslatedLeaf
Translated(v, to) ==
    IF v.t = "object"
    THEN Obj([j \in 1..Len(v.k) |-> Entry(v.k[j].n, Translated(v.k[j].val, to))])
    ELSE TranslatedLeaf(v, to)

\* C12: the tree translateNestedObject returned for a locale has, at every
\* level, the keys of the missing-key tree it was given, in the same order
\* and with the same nesting; a number or a null is the input's, and no call
\* was made for it; an array has the input's length, with element j the
\* translation of element j or the same non-string element, in whatever
\* order the answers came.
C12_StructurePreserved ==
    \A l \in Locales :
        saves[l].st # "none" =>
            /\ saves[l].translated = Translated(saves[l].missingKeys, l)
            /\ Len(RequestsBy(l, "translate")) = Len(StringsOf(saves[l].missingKeys))

\* a tree returned with a string, an array of strings around a number, and a
\* number, while the next locale has the answer for the last element of
\* that array before the answer for the first
C12_Witness ==
    /\ pc = "await" /\ awaiting.kind = "array"
    /\ awaiting.slots[3].done /\ ~awaiting.slots[1].done
    /\ \E l \in Locales :
          /\ saves[l].st # "none"
          /\ [j \in 1..Len(saves[l].translated.k) |-> saves[l].translated.k[j].n]
                = <<"greeting", "list", "count">>
          /\ GetProp(saves[l].translated, "list")
                = Arr(<<Str(ProviderText("Hello", l)), Num("7"),
                        Str(ProviderText("Bye", l))>>)
          /\ GetProp(saves[l].translated, "count") = Num("7")

----------------------------------------------------------------------------
(* C13, C14, C15: the calendar and the calls of a locale                   *)

\* the language whose date names stand for a locale
IntlCodeOf(l) == IF l = "lzh" THEN "zh" ELSE l
\* the calendar of a locale: the date names of its language, and 'Hoje'
\* translated into the locale
CalendarOf(l) ==
    Obj(<<Entry("monthNames", IntlNames(IntlCodeOf(l), "month", "long")),
          Entry("monthNamesShort", IntlNames(IntlCodeOf(l), "month", "short")),
          Entry("dayNames", IntlNames(IntlCodeOf(l), "weekday", "long")),
          Entry("dayNamesShort", IntlNames(IntlCodeOf(l), "weekday", "short")),
          Entry("today", Str(ProviderText("Hoje", l)))>>)

\* C13: in a locale's written file, calendar_locale is the calendar of that
\* locale, and not what the translator returned for the key, when
\* calendar_locale is a top-level missing key; otherwise it is the value the
\* existing file had (or is absent as there), and no 'Hoje' call was made.
C13_CalendarOverride ==
    \A l \in Locales :
        writes[l] >= 1 =>
            IF "calendar_locale" \in KeySet(saves[l].missingKeys)
            THEN /\ GetProp(files[l], "calendar_locale") = CalendarOf(l)
                 /\ GetProp(files[l], "calendar_locale")
                       # GetProp(saves[l].translated, "calendar_locale")
            ELSE /\ GetProp(files[l], "calendar_locale")
                       = GetProp(saves[l].existing, "calendar_locale")
                 /\ RequestsBy(l, "save") = <<>>

\* the file of lzh written with the date names of zh and 'Hoje' translated
\* into lzh, beside the file of another locale that kept its calendar
C13_Witness ==
    /\ writes["lzh"] = 1
    /\ HasOwnProperty(saves["lzh"].translated, "calendar_locale")
    /\ GetProp(GetProp(files["lzh"], "calendar_locale"), "dayNames")
          = IntlNames("zh", "weekday", "long")
    /\ GetProp(GetProp(files["lzh"], "calendar_locale"), "today")
          = Str(ProviderText("Hoje", "lzh"))
    /\ \E l \in Locales :
          /\ writes[l] = 1
          /\ ~HasOwnProperty(saves[l].missingKeys, "calendar_locale")
          /\ GetProp(files[l], "calendar_locale")
                = Obj(<<Entry("today", Str("Hoy"))>>)

\* C14 as stated: at every moment the outstanding calls (posted, or waiting
\* to retry) all belong to one locale, the 'Hoje' call of saveTranslations
\* included.
C14_CallsOfOneLocale ==
    \A i, j \in DOMAIN calls : calls[i].locale = calls[j].locale

\* C15: each locale's iteration begins once, and with it currentLanguage is
\* set: while locale i is worked on currentLanguage is i, and between two
\* iterations it is still the locale just left; what saveTranslations and
\* daysForLocale read for locale i (the argument of daysForLocale, the
\* language of the 'Hoje' call) is i; and the calendar in i's file has the
\* date names of i and 'Hoje' translated into i.
C15_CurrentLanguageOfTheIteration ==
    /\ \A l \in Locales : started[l] <= 1
    /\ currentLanguage =
          IF pc \in {"translate", "await", "save", "aborted"}
          THEN outputLanguages[idx]
          ELSE IF idx = 1 THEN "" ELSE outputLanguages[idx - 1]
    /\ \A l \in Locales :
          /\ saves[l].st # "none" => saves[l].localeName \in {"", l}
          /\ \A j \in DOMAIN requested[l] :
                requested[l][j][1] = "save" => requested[l][j][3] = l
          /\ (writes[l] >= 1 /\ RequestsBy(l, "save") # <<>>) =>
                LET calendar == GetProp(files[l], "calendar_locale")
                IN /\ GetProp(calendar, "monthNames")
                         = IntlNames(IntlCodeOf(l), "month", "long")
                   /\ GetProp(calendar, "today") = Str(ProviderText("Hoje", l))
    /\ \A i \in DOMAIN calls :
          calls[i].owner = "save" => calls[i].to = calls[i].locale

\* the first locale's file written with its own calendar after
\* currentLanguage was set for the second locale
C15_Witness ==
    /\ currentLanguage = outputLanguages[2]
    /\ started[outputLanguages[2]] = 1
    /\ writes[outputLanguages[1]] = 1
    /\ saves[outputLanguages[1]].localeName = outputLanguages[1]
    /\ RequestsBy(outputLanguages[1], "save")
          = <<Request("save", "Hoje", outputLanguages[1])>>
    /\ GetProp(GetProp(files[outputLanguages[1]], "calendar_locale"), "today")
          = Str(ProviderText("Hoje", outputLanguages[1]))

----------------------------------------------------------------------------
(* C16, C17: the reports and the order of the calls                        *)

\* the diff of a locale as the run found it
DiffAtStart(l) ==
    findMissingKeys(languageSource,
                    IF filesAtStart[l] = NoFile THEN EmptyObj ELSE filesAtStart[l])

\* C16 as stated: when the overall success (line 281) is reported, every
\* locale with a non-empty diff has its file written and no call and no
\* saveTranslations task is pending; and when a locale's completion (line
\* 279) is reported, that locale, if its diff was not empty, has its file
\* written.
C16_SuccessOnlyWhenComplete ==
    /\ <<"all", "">> \in reported =>
          /\ calls = <<>>
          /\ \A l \in Locales :
                /\ saves[l].st # "awaiting"
                /\ DiffAtStart(l) # EmptyObj => writes[l] >= 1
    /\ \A l \in Locales :
          (<<"language", l>> \in reported /\ DiffAtStart(l) # EmptyObj) =>
              writes[l] >= 1

\* the outstanding calls of translateNestedObject
TranslatorCalls == {i \in DOMAIN calls : calls[i].owner = "translate"}

\* C17: translateNestedObject has calls outstanding only while it awaits a
\* leaf (or after it ended with a failure at that leaf), and then every one
\* of them is for the leaf it stands at: the one call of a string, or calls
\* of distinct string elements of one array; while an array is awaited each
\* of its string elements has its call out or its answer in; and the texts
\* are sent in the order of the keys, nested trees in their place.
C17_OneLeafAtATime ==
    /\ pc \in {"loop", "translate", "save", "done"} => TranslatorCalls = {}
    /\ pc \in {"await", "aborted"} =>
          LET leaf == Head(Top.todo).val
          IN \A i \in TranslatorCalls :
                /\ calls[i].locale = desiredLanguage /\ calls[i].to = desiredLanguage
                /\ \/ leaf.t = "string" /\ calls[i].slot = 1
                                        /\ calls[i].value = leaf.s
                   \/ /\ leaf.t = "array" /\ calls[i].slot \in 1..Len(leaf.k)
                      /\ leaf.k[calls[i].slot].val = Str(calls[i].value)
                /\ \A j \in TranslatorCalls : calls[j].slot = calls[i].slot => j = i
    /\ pc = "await" =>
          {j \in DOMAIN awaiting.slots : ~awaiting.slots[j].done}
              = {calls[i].slot : i \in TranslatorCalls}
    /\ \A l \in Locales :
          LET sent == RequestsBy(l, "translate")
              texts == [j \in DOMAIN sent |-> sent[j][2]]
              tree == IF saves[l].st # "none" THEN saves[l].missingKeys
                      ELSE IF started[l] > 0 THEN missingKeys ELSE EmptyObj
          IN /\ Len(texts) <= Len(StringsOf(tree))
             /\ texts = SubSeq(StringsOf(tree), 1, Len(texts))

\* after a first key was translated, both string elements of an array are
\* out and none is answered, and the key after the array has had no call
C17_Witness ==
    /\ pc = "await" /\ awaiting.kind = "array"
    /\ Cardinality(TranslatorCalls) = 2
    /\ \A j \in DOMAIN awaiting.slots :
          awaiting.slots[j].done => awaiting.slots[j].val.t # "string"
    /\ stack[1].out # <<>>
    /\ Len(Top.todo) > 1
    /\ Len(RequestsBy(desiredLanguage, "translate")) = 3

----------------------------------------------------------------------------
(* C18, C19: a second run, and the trees the run is given                  *)

\* C18 as stated: once a locale's file is written by a run without failure
\* for that locale, the diff a following run computes for it, of the same
\* source against the file as written, is empty (so that run makes no call
\* and writes no file for the locale, by C10).
C18_SecondRunFindsNothing ==
    \A l \in Locales :
        (writes[l] >= 1 /\ \A f \in failures : f[2] # l) =>
            findMissingKeys(languageSource, files[l]) = EmptyObj

\* the trees of the last locale worked on that the run made itself
MadeByTheRun == {r \in {refs.missing, refs.translated, refs.merged} : r.t = "ref"}

\* C19: in memory, the source tree is at every moment the tree that was
\* loaded, so every locale's diff is the diff of that same source; the
\* existing tree of a locale is the tree that was read, through the diff, the
\* translation, the merge and the save; and the objects those steps return
\* are new ones, none of them the source's or the existing tree's root or
\* nested object.
C19_SourceAndExistingUntouched ==
    /\ TreeAt(heap, refs.source) = languageSource
    /\ refs.existing # HUndefined =>
          /\ TreeAt(heap, refs.existing) = existingTranslations
          /\ missingKeys = findMissingKeys(languageSource, existingTranslations)
    /\ \A r \in MadeByTheRun :
          r.a \notin Reach(heap, refs.source) \cup Reach(heap, refs.existing)
    /\ \A l \in Locales : writes[l] = 0 => files[l] = filesAtStart[l]

\* a locale saved whose missing-key tree shares an array with the source and
\* whose merged tree shares a nested object with the existing tree
C19_Witness ==
    /\ refs.merged.t = "ref"
    /\ writes[currentLanguage] = 1
    /\ Reach(heap, refs.missing) \cap Reach(heap, refs.source) # {}
    /\ Reach(heap, refs.merged) \cap Reach(heap, refs.existing) # {}

====
